---- MODULE Spec2Model ----
(***************************************************************************)
(* A model of the Bitcoin data-availability adapter: the envelope parser   *)
(* (helpers/parsers.rs), the blob codec (helpers/builders.rs) and the DA   *)
(* verifier (verifier.rs).  All byte strings are sequences of small        *)
(* integers; indices are zero-based as in the source, so the i-th element  *)
(* of a Rust slice s is s[i + 1] here.                                     *)
(***************************************************************************)
EXTENDS Integers, Sequences, FiniteSets, TLC

VARIABLES
    block_header,              \* the header passed to verify_relevant_tx_list
    blobs,                     \* the blobs slice
    inclusion_proof,           \* InclusionMultiProof: [txs |-> sequence of txids]
    completeness_proof,        \* the transactions completeness_proof.iter() has yielded
    pc,                        \* position inside verify_relevant_tx_list
    validity_condition,        \* the local built at verifier.rs:83
    blobs_iter,                \* number of blobs taken from blobs.iter()
    prev_index_in_inclusion,   \* the search cursor of verifier.rs:93
    completeness_tx_hashes,    \* the HashSet collected at verifier.rs:170
    content_checks,            \* per verified transaction: which blobs were looked at
    result,                    \* what the call returned, or the panic that ended it
    chain,                     \* validity conditions returned so far, with their headers
    combined,                  \* the last call of ChainValidityCondition::combine
    script,                    \* the tapscript handed to the parser
    parsed,                    \* what parse_transaction returned for script
    builder,                   \* the locals of create_inscription_transactions
    selection                  \* a call of choose_utxos: its arguments and its result

vars == <<block_header, blobs, inclusion_proof, completeness_proof, pc,
          validity_condition, blobs_iter, prev_index_in_inclusion,
          completeness_tx_hashes, content_checks, result, chain, combined,
          script, parsed, builder, selection>>

verifier_vars == <<block_header, blobs, inclusion_proof, completeness_proof, pc,
                   validity_condition, blobs_iter, prev_index_in_inclusion,
                   completeness_tx_hashes, content_checks, result>>

parser_vars == <<script, parsed>>

(***************************************************************************)
(* Bounds of the model.                                                    *)
(***************************************************************************)
MaxIncl == 2      \* longest inclusion proof
MaxBlobs == 2     \* longest blobs slice
MaxChain == 2     \* blocks verified in a row
MaxBlockTxs == 4  \* longest inclusion proof of the blocks of SpecInclusion
MaxBodyChunks == 2  \* most body pushes of a script handed to the parser
MaxUtxos == 2     \* longest utxos list passed to the builder
MaxNonce == 17    \* the mining loop is followed up to this nonce
MaxChosen == 3    \* longest utxos list passed to choose_utxos on its own
ChunkLen == 2     \* bytes per body push; stands for the 520 of body.chunks(520)

SeqsUpTo(S, n) == UNION {[1..k -> S] : k \in 0..n}

Min(a, b) == IF a < b THEN a ELSE b

(***************************************************************************)
(* Hashes.  sha256d is collision free on the model's inputs: the digest    *)
(* is the length-prefixed preimage.                                        *)
(***************************************************************************)
Sha256d(bytes) == <<Len(bytes)>> \o bytes

\* One inner node of the merkle tree: sha256d of the two children, concatenated.
MerkleNode(l, r) == Sha256d(l \o r)

\* merkle_root_r of rust-bitcoin: pair up one level (the last element is
\* paired with itself when the level is odd) until one hash is left.
RECURSIVE MerkleRootR(_)
MerkleRootR(hashes) ==
    IF Len(hashes) = 1 THEN hashes[1]
    ELSE LET n == Len(hashes)
             half == (n + 1) \div 2
             level == [idx \in 1..half |->
                          MerkleNode(hashes[2 * idx - 1], hashes[Min(2 * idx, n)])]
         IN MerkleRootR(level)

\* merkle_tree::calculate_root: None for no hashes.
CalculateRoot(hashes) ==
    IF Len(hashes) = 0 THEN [some |-> FALSE, root |-> <<>>]
    ELSE [some |-> TRUE, root |-> MerkleRootR(hashes)]

(***************************************************************************)
(* Blob codec.  The compressed stream is a run-length code, a sequence of  *)
(* (count, byte) pairs; a stream of odd length or with a zero count is     *)
(* malformed.                                                              *)
(***************************************************************************)
RECURSIVE RunLength(_, _)
RunLength(blob, i) ==
    IF i > Len(blob) THEN 0
    ELSE IF i < Len(blob) /\ blob[i + 1] = blob[i] THEN 1 + RunLength(blob, i + 1)
    ELSE 1

RECURSIVE compress_blob(_)
compress_blob(blob) ==
    IF Len(blob) = 0 THEN <<>>
    ELSE LET n == RunLength(blob, 1)
         IN <<n, blob[1]>> \o compress_blob(SubSeq(blob, n + 1, Len(blob)))

RECURSIVE Inflate(_)
Inflate(stream) ==
    IF Len(stream) = 0 THEN <<>>
    ELSE [k \in 1..stream[1] |-> stream[2]] \o Inflate(SubSeq(stream, 3, Len(stream)))

WellFormedStream(stream) ==
    /\ Len(stream) % 2 = 0
    /\ \A k \in 1..Len(stream) : (k % 2 = 1) => stream[k] >= 1

\* decompress_blob: ok = FALSE is the panic "decompression failed".
decompress_blob(blob) ==
    IF WellFormedStream(blob) THEN [ok |-> TRUE, data |-> Inflate(blob)]
    ELSE [ok |-> FALSE, data |-> <<>>]

(***************************************************************************)
(* secp256k1.  A public key is two bytes, the first 2 or 3 (a compressed   *)
(* point); a compact signature by the owner of key pk over message msg is  *)
(* the byte 48 followed by pk and msg.                                     *)
(***************************************************************************)
SignEcdsa(msg, pk) == <<48>> \o pk \o msg

\* secp256k1::PublicKey::from_slice(..).is_ok()
PublicKeyFromSlice(bytes) == Len(bytes) = 2 /\ bytes[1] \in {2, 3}

\* ecdsa::Signature::from_compact(..).is_ok()
SignatureFromCompact(bytes) == Len(bytes) >= 3 /\ bytes[1] = 48

\* secp.verify_ecdsa(&message, &signature, &public_key).is_ok()
VerifyEcdsa(msg, sig, pk) == sig = SignEcdsa(msg, pk)

(***************************************************************************)
(* Scripts.  An instruction is an opcode, a data push, or a byte the       *)
(* instruction iterator cannot decode ("bad").  rust-bitcoin decodes       *)
(* OP_FALSE as an empty push.                                              *)
(***************************************************************************)
Op(name) == [kind |-> "op", op |-> name, bytes |-> <<>>]
Push(bytes) == [kind |-> "push", op |-> "", bytes |-> bytes]
BadInstruction == [kind |-> "bad", op |-> "", bytes |-> <<>>]

ROLLUP_NAME_TAG == <<1>>
SIGNATURE_TAG == <<2>>
PUBLICKEY_TAG == <<3>>
RANDOM_TAG == <<4>>
BODY_TAG == <<>>

ParserStart ==
    [last_op |-> "", inside_envelope |-> FALSE, inside_envelope_index |-> 0,
     body |-> <<>>, signature |-> <<>>, public_key |-> <<>>]

\* EnvelopePush with a slip: the push at position 6 is not compared.
EnvelopePush_RandomTagUnchecked(bytes, rollup_name, st) ==
    LET i == st.inside_envelope_index
        next == [st EXCEPT !.inside_envelope_index = i + 1]
    IN IF i = 0 /\ bytes # ROLLUP_NAME_TAG
         THEN [err |-> "EnvelopeHasIncorrectFormat", st |-> st]
       ELSE IF i = 1 /\ bytes # rollup_name
         THEN [err |-> "InvalidRollupName", st |-> st]
       ELSE IF i = 2 /\ bytes # SIGNATURE_TAG
         THEN [err |-> "EnvelopeHasIncorrectFormat", st |-> st]
       ELSE IF i = 3
         THEN [err |-> "", st |-> [next EXCEPT !.signature = st.signature \o bytes]]
       ELSE IF i = 4 /\ bytes # PUBLICKEY_TAG
         THEN [err |-> "EnvelopeHasIncorrectFormat", st |-> st]
       ELSE IF i = 5
         THEN [err |-> "", st |-> [next EXCEPT !.public_key = st.public_key \o bytes]]
       ELSE IF i = 8 /\ bytes # BODY_TAG
         THEN [err |-> "EnvelopeHasIncorrectFormat", st |-> st]
       ELSE IF i >= 9
         THEN [err |-> "", st |-> [next EXCEPT !.body = st.body \o bytes]]
       ELSE [err |-> "", st |-> next]

\* One data push inside the envelope (parsers.rs:91-111): the error it
\* raises, or "" and the state after it.
EnvelopePush(bytes, rollup_name, st) ==
    LET i == st.inside_envelope_index
        next == [st EXCEPT !.inside_envelope_index = i + 1]
    IN IF i = 0 /\ bytes # ROLLUP_NAME_TAG
         THEN [err |-> "EnvelopeHasIncorrectFormat", st |-> st]
       ELSE IF i = 1 /\ bytes # rollup_name
         THEN [err |-> "InvalidRollupName", st |-> st]
       ELSE IF i = 2 /\ bytes # SIGNATURE_TAG
         THEN [err |-> "EnvelopeHasIncorrectFormat", st |-> st]
       ELSE IF i = 3
         THEN [err |-> "", st |-> [next EXCEPT !.signature = st.signature \o bytes]]
       ELSE IF i = 4 /\ bytes # PUBLICKEY_TAG
         THEN [err |-> "EnvelopeHasIncorrectFormat", st |-> st]
       ELSE IF i = 5
         THEN [err |-> "", st |-> [next EXCEPT !.public_key = st.public_key \o bytes]]
       ELSE IF i = 6 /\ bytes # RANDOM_TAG
         THEN [err |-> "EnvelopeHasIncorrectFormat", st |-> st]
       ELSE IF i = 8 /\ bytes # BODY_TAG
         THEN [err |-> "EnvelopeHasIncorrectFormat", st |-> st]
       ELSE IF i >= 9
         THEN [err |-> "", st |-> [next EXCEPT !.body = st.body \o bytes]]
       ELSE [err |-> "", st |-> next]

\* ParseLoop with a slip: the ENDIF of the envelope does not end the loop.
RECURSIVE ParseLoop_NoBreak(_, _, _, _)
ParseLoop_NoBreak(instructions, k, rollup_name, st) ==
    IF k > Len(instructions) \/ instructions[k].kind = "bad"
      THEN [err |-> "", st |-> st]
    ELSE LET instruction == instructions[k]
         IN IF instruction.kind = "op" /\ instruction.op = "OP_IF" THEN
                IF st.last_op = "OP_FALSE"
                  THEN ParseLoop_NoBreak(instructions, k + 1, rollup_name,
                                 [st EXCEPT !.inside_envelope = TRUE])
                ELSE IF st.inside_envelope
                  THEN [err |-> "EnvelopeHasNonPushOp", st |-> st]
                ELSE ParseLoop_NoBreak(instructions, k + 1, rollup_name, st)
            ELSE IF instruction.kind = "op" /\ instruction.op = "OP_ENDIF" THEN
                ParseLoop_NoBreak(instructions, k + 1, rollup_name, st)
            ELSE IF instruction.kind = "op" THEN
                IF st.inside_envelope
                  THEN [err |-> "EnvelopeHasNonPushOp", st |-> st]
                ELSE ParseLoop_NoBreak(instructions, k + 1, rollup_name,
                               [st EXCEPT !.last_op = instruction.op])
            ELSE IF st.inside_envelope THEN
                LET r == EnvelopePush(instruction.bytes, rollup_name, st)
                IN IF r.err # "" THEN r
                   ELSE ParseLoop_NoBreak(instructions, k + 1, rollup_name, r.st)
            ELSE IF Len(instruction.bytes) = 0
              THEN ParseLoop_NoBreak(instructions, k + 1, rollup_name,
                             [st EXCEPT !.last_op = "OP_FALSE"])
            ELSE ParseLoop_NoBreak(instructions, k + 1, rollup_name, st)

\* The while loop of parse_relevant_inscriptions from instruction k on: the
\* error returned from inside the loop, or "" and the state the loop ends in.
RECURSIVE ParseLoop(_, _, _, _)
ParseLoop(instructions, k, rollup_name, st) ==
    IF k > Len(instructions) \/ instructions[k].kind = "bad"
      THEN [err |-> "", st |-> st]
    ELSE LET instruction == instructions[k]
         IN IF instruction.kind = "op" /\ instruction.op = "OP_IF" THEN
                IF st.last_op = "OP_FALSE"
                  THEN ParseLoop(instructions, k + 1, rollup_name,
                                 [st EXCEPT !.inside_envelope = TRUE])
                ELSE IF st.inside_envelope
                  THEN [err |-> "EnvelopeHasNonPushOp", st |-> st]
                ELSE ParseLoop(instructions, k + 1, rollup_name, st)
            ELSE IF instruction.kind = "op" /\ instruction.op = "OP_ENDIF" THEN
                IF st.inside_envelope
                  THEN [err |-> "", st |-> st]
                ELSE ParseLoop(instructions, k + 1, rollup_name, st)
            ELSE IF instruction.kind = "op" THEN
                IF st.inside_envelope
                  THEN [err |-> "EnvelopeHasNonPushOp", st |-> st]
                ELSE ParseLoop(instructions, k + 1, rollup_name,
                               [st EXCEPT !.last_op = instruction.op])
            ELSE IF st.inside_envelope THEN
                LET r == EnvelopePush(instruction.bytes, rollup_name, st)
                IN IF r.err # "" THEN r
                   ELSE ParseLoop(instructions, k + 1, rollup_name, r.st)
            ELSE IF Len(instruction.bytes) = 0
              THEN ParseLoop(instructions, k + 1, rollup_name,
                             [st EXCEPT !.last_op = "OP_FALSE"])
            ELSE ParseLoop(instructions, k + 1, rollup_name, st)

ParseErr(e) ==
    [ok |-> FALSE, err |-> e, body |-> <<>>, signature |-> <<>>, public_key |-> <<>>]

\* parse_relevant_inscriptions with a slip: empty fields are returned.
parse_relevant_inscriptions_NoEmptyCheck(instructions, rollup_name) ==
    LET r == ParseLoop(instructions, 1, rollup_name, ParserStart)
    IN IF r.err # "" THEN ParseErr(r.err)
       ELSE [ok |-> TRUE, err |-> "", body |-> r.st.body,
             signature |-> r.st.signature, public_key |-> r.st.public_key]

\* parsers.rs:46-130
parse_relevant_inscriptions(instructions, rollup_name) ==
    LET r == ParseLoop(instructions, 1, rollup_name, ParserStart)
    IN IF r.err # "" THEN ParseErr(r.err)
       ELSE IF Len(r.st.body) = 0 \/ Len(r.st.signature) = 0 \/ Len(r.st.public_key) = 0
         THEN ParseErr("EnvelopeHasIncorrectFormat")
       ELSE [ok |-> TRUE, err |-> "", body |-> r.st.body,
             signature |-> r.st.signature, public_key |-> r.st.public_key]

\* get_script: the tapscript of the witness of input 0, when there is one.
\* tapscript is the empty sequence for a witness that holds none.
parse_transaction(tapscript, rollup_name) ==
    IF Len(tapscript) = 0 THEN ParseErr("NonTapscriptWitness")
    ELSE parse_relevant_inscriptions(tapscript, rollup_name)

(***************************************************************************)
(* The verifier's inputs.                                                  *)
(***************************************************************************)
\* Txids are three bytes long; the first two carry the proof-of-work tag.
RelevantTxidA == <<0, 0, 1>>
RelevantTxidB == <<0, 0, 2>>
OtherTxid == <<0, 1, 3>>
TxidPool == {RelevantTxidA, RelevantTxidB, OtherTxid}

RollupName == <<5, 6>>
KeyA == <<2, 1>>
KeyB == <<3, 2>>
ContentA == <<7, 7>>
ContentB == <<8>>

\* The reveal script the builder writes (builders.rs:329-362), body in one chunk.
EnvelopeScript(body, signature, public_key) ==
    <<Push(<<1, 1>>), Op("OP_CHECKSIG"), Push(<<>>), Op("OP_IF"),
      Push(ROLLUP_NAME_TAG), Push(RollupName),
      Push(SIGNATURE_TAG), Push(signature),
      Push(PUBLICKEY_TAG), Push(public_key),
      Push(RANDOM_TAG), Push(<<44, 1>>),
      Push(BODY_TAG), Push(body), Op("OP_ENDIF")>>

\* An inscription of content, signed by the owner of key over the hash of
\* the compressed body.
SignedScript(content, key) ==
    EnvelopeScript(compress_blob(content),
                   SignEcdsa(Sha256d(compress_blob(content)), key), key)

\* The same envelope with a signature over another message.
BadSignatureScript ==
    EnvelopeScript(compress_blob(ContentA),
                   SignEcdsa(Sha256d(compress_blob(ContentB)), KeyA), KeyA)

\* A tapscript without an envelope.
NoEnvelopeScript == <<Push(<<1, 1>>), Op("OP_CHECKSIG")>>

\* The witnesses of the model, by name: a transaction of the state carries
\* the name, and its tapscript is looked up here.
WitnessNames == {"signedA", "signedB", "badsig", "noenvelope"}

TapscriptOf(witness) ==
    CASE witness = "signedA" -> SignedScript(ContentA, KeyA)
      [] witness = "signedB" -> SignedScript(ContentB, KeyB)
      [] witness = "badsig" -> BadSignatureScript
      [] witness = "noenvelope" -> NoEnvelopeScript
      [] OTHER -> <<>>

\* A transaction is its txid (the hash of its non-witness part) and the
\* witness of input 0.
Tx(txid, witness) == [txid |-> txid, witness |-> witness]

TxPool ==
    {Tx(id, w) : id \in {RelevantTxidA, RelevantTxidB}, w \in WitnessNames}
        \cup {Tx(OtherTxid, "signedA")}

\* BlobWithSender::new(content, sender, hash)
BlobWithSender(content, sender, hash) ==
    [blob |-> content, sender |-> sender, hash |-> hash]

\* get_blob_with_sender of the tests: the blob that belongs to an inscription.
BlobOf(content, key) == BlobWithSender(content, key, Sha256d(compress_blob(content)))

BlobPool ==
    {BlobOf(ContentA, KeyA), BlobOf(ContentB, KeyB),
     BlobWithSender(ContentB, KeyA, Sha256d(compress_blob(ContentA))),
     BlobWithSender(ContentA, KeyB, Sha256d(compress_blob(ContentA)))}

GenesisHash == <<0>>

\* The merkle root of a block that holds one transaction outside the pool.
ForeignRoot == <<1, 0, 9>>

\* block_header.block_hash(): the hash of the header's fields.
BlockHash(header) == Sha256d(Sha256d(header.prev_hash) \o Sha256d(header.merkle_root))

\* The merkle roots a header can carry next to inclusion proof txs: the root
\* of txs itself, or the root of another block.
HeaderRoots(txs) ==
    {ForeignRoot} \cup (IF Len(txs) = 0 THEN {} ELSE {CalculateRoot(txs).root})

(***************************************************************************)
(* verify_relevant_tx_list                                                 *)
(***************************************************************************)
\* validity_condition, verifier.rs:83-86
ValidityConditionOf(header) ==
    [prev_hash |-> header.prev_hash, block_hash |-> header.prev_hash]

\* IsRelevant with a slip: only the first byte is compared.
IsRelevant_FirstByte(tx_hash) == tx_hash[1] = 0

\* tx_hash[0..2] == [0, 0]
IsRelevant(tx_hash) == tx_hash[1] = 0 /\ tx_hash[2] = 0

\* FindInInclusion with a slip: the search restarts at index 0.
FindInInclusion_FromStart(txs, from, tx_hash) ==
    LET hits == {i \in 0..(Len(txs) - 1) : txs[i + 1] = tx_hash}
    IN IF hits = {} THEN -1 ELSE CHOOSE i \in hits : \A j \in hits : i <= j

\* The search of verifier.rs:113-119: the first index at or after from that
\* holds tx_hash, -1 when there is none.
FindInInclusion(txs, from, tx_hash) ==
    LET hits == {i \in from..(Len(txs) - 1) : txs[i + 1] = tx_hash}
    IN IF hits = {} THEN -1 ELSE CHOOSE i \in hits : \A j \in hits : i <= j

\* The blob whose content is compared at verifier.rs:159.
ContentBlobIndex(index_completeness, taken) == index_completeness

\* BlobHashOk with a slip: the hash is not compared.
BlobHashOk_Unchecked(blob, blob_hash) == TRUE

\* assert_eq!(blob.hash, blob_hash, ..), verifier.rs:148
BlobHashOk(blob, blob_hash) == blob.hash = blob_hash

\* assert_eq!(parsed_tx.public_key, blob.sender.0, ..), verifier.rs:150-153
BlobSenderOk(blob, public_key) == public_key = blob.sender

\* blobs_iter.next().is_none(), verifier.rs:173-176
BlobsExhausted(iter, blobs_) == iter >= Len(blobs_)

\* The closure of verifier.rs:99-169 on one transaction: the panic that ends
\* it ("" for none), the iterator and the cursor after it, and the blobs it
\* looked at when it got as far as reading the blob content.
CompletenessTx(tx, index_completeness, rollup_name, txs, blobs_, iter, prev_index) ==
    LET tx_hash == tx.txid
        found == FindInInclusion(txs, prev_index, tx_hash)
        parsed_tx == parse_transaction(TapscriptOf(tx.witness), rollup_name)
        blob_hash == Sha256d(parsed_tx.body)
        blob == blobs_[iter + 1]
        decompressed_blob == decompress_blob(parsed_tx.body)
        content_index == ContentBlobIndex(index_completeness, iter)
        check == [tx |-> index_completeness, taken |-> iter, content |-> content_index]
        End(msg, it, cursor, log) ==
            [panic |-> msg, blobs_iter |-> it, prev_index_in_inclusion |-> cursor,
             checks |-> log]
    IN IF ~IsRelevant(tx_hash)
         THEN End("non-relevant tx found in completeness proof", iter, prev_index, <<>>)
       ELSE IF found = -1
         THEN End("tx in completeness proof is not found in DA block or order was not preserved",
                  iter, prev_index, <<>>)
       ELSE IF ~parsed_tx.ok
         THEN End("", iter, found + 1, <<>>)
       ELSE IF ~PublicKeyFromSlice(parsed_tx.public_key)
         THEN End("unwrap on Err: public key",
                  iter, found + 1, <<>>)
       ELSE IF ~SignatureFromCompact(parsed_tx.signature)
         THEN End("unwrap on Err: signature",
                  iter, found + 1, <<>>)
       ELSE IF ~VerifyEcdsa(blob_hash, parsed_tx.signature, parsed_tx.public_key)
         THEN End("", iter, found + 1, <<>>)
       ELSE IF iter >= Len(blobs_)
         THEN End("valid blob was not found in blobs", iter, found + 1, <<>>)
       ELSE IF ~BlobHashOk(blob, blob_hash)
         THEN End("blobs was tampered with", iter + 1, found + 1, <<>>)
       ELSE IF ~BlobSenderOk(blob, parsed_tx.public_key)
         THEN End("incorrect sender in blob", iter + 1, found + 1, <<>>)
       ELSE IF ~decompressed_blob.ok
         THEN End("decompression failed", iter + 1, found + 1, <<>>)
       ELSE IF content_index >= Len(blobs_)
         THEN End("index out of bounds", iter + 1, found + 1, <<check>>)
       ELSE IF blobs_[content_index + 1].blob # decompressed_blob.data
         THEN End("blob content was modified", iter + 1, found + 1, <<check>>)
       ELSE End("", iter + 1, found + 1, <<check>>)

\* WalkInclusion with a slip: a tagged txid outside the set is passed over.
RECURSIVE WalkInclusion_NoAssert(_, _, _)
WalkInclusion_NoAssert(txs, k, hashes) ==
    IF k > Len(txs) THEN [ok |-> TRUE, hashes |-> hashes]
    ELSE WalkInclusion_NoAssert(txs, k + 1, hashes \ {txs[k]})

\* The walk with a slip: contains in place of remove, the set is left whole.
RECURSIVE WalkInclusion_NoRemove(_, _, _)
WalkInclusion_NoRemove(txs, k, hashes) ==
    IF k > Len(txs) THEN [ok |-> TRUE, hashes |-> hashes]
    ELSE IF IsRelevant(txs[k]) /\ txs[k] \notin hashes
      THEN [ok |-> FALSE, hashes |-> hashes]
    ELSE WalkInclusion_NoRemove(txs, k + 1, hashes)

\* The walk with a slip: a tagged txid seen earlier in the walk is passed over.
RECURSIVE WalkInclusion_RepeatsPassed(_, _, _)
WalkInclusion_RepeatsPassed(txs, k, hashes) ==
    IF k > Len(txs) THEN [ok |-> TRUE, hashes |-> hashes]
    ELSE IF IsRelevant(txs[k]) /\ txs[k] \notin hashes
            /\ \A j \in 1..(k - 1) : txs[j] # txs[k]
      THEN [ok |-> FALSE, hashes |-> hashes]
    ELSE WalkInclusion_RepeatsPassed(txs, k + 1, hashes \ {txs[k]})

\* The walk of verifier.rs:179-187 from position k: the set that is left, or
\* the failed removal.
RECURSIVE WalkInclusion(_, _, _)
WalkInclusion(txs, k, hashes) ==
    IF k > Len(txs) THEN [ok |-> TRUE, hashes |-> hashes]
    ELSE IF IsRelevant(txs[k])
      THEN IF txs[k] \in hashes
             THEN WalkInclusion(txs, k + 1, hashes \ {txs[k]})
           ELSE [ok |-> FALSE, hashes |-> hashes]
    ELSE WalkInclusion(txs, k + 1, hashes)

NoCondition == [prev_hash |-> <<>>, block_hash |-> <<>>]

\* result: nothing yet, a panic (its message and the step it came from), or
\* the value returned.
Pending == [kind |-> "pending", msg |-> "", at |-> "", cond |-> NoCondition]
PanicWith(msg, at) == [kind |-> "panic", msg |-> msg, at |-> at, cond |-> NoCondition]
OkWith(cond) == [kind |-> "Ok", msg |-> "", at |-> "", cond |-> cond]

\* combine with a slip: the Ok value is self instead of rhs.
combine_ReturnsSelf(self, rhs) ==
    IF self.block_hash # rhs.prev_hash
      THEN [ok |-> FALSE, err |-> "BlocksNotConsecutive", value |-> NoCondition]
    ELSE [ok |-> TRUE, err |-> "", value |-> self]

\* ChainValidityCondition::combine, verifier.rs:54-59
combine(self, rhs) ==
    IF self.block_hash # rhs.prev_hash
      THEN [ok |-> FALSE, err |-> "BlocksNotConsecutive", value |-> NoCondition]
    ELSE [ok |-> TRUE, err |-> "", value |-> rhs]

NoHeader == [prev_hash |-> <<>>, merkle_root |-> <<>>]

\* combined before any call: the two operands, the headers whose verification
\* returned them (NoHeader for a condition the caller made up), the outcome.
NoCombine ==
    [called |-> FALSE, lhs_header |-> NoHeader, rhs_header |-> NoHeader,
     lhs |-> NoCondition, rhs |-> NoCondition,
     out |-> [ok |-> FALSE, err |-> "", value |-> NoCondition]]

\* No script has been handed to the parser.
NotParsed == [ok |-> FALSE, err |-> "pending", body |-> <<>>, signature |-> <<>>,
              public_key |-> <<>>]
ParserIdle == script = <<>> /\ parsed = NotParsed

\* create_inscription_transactions has not been called.
NotBuilding == [at |-> "idle"]
\* choose_utxos has not been called.
NotChoosing == [at |-> "idle"]
BuilderIdle == builder = NotBuilding /\ selection = NotChoosing

\* The state at the entry of verify_relevant_tx_list.
Enter(header, blobs_, txs) ==
    /\ block_header = header
    /\ blobs = blobs_
    /\ inclusion_proof = [txs |-> txs]
    /\ completeness_proof = <<>>
    /\ pc = "start"
    /\ validity_condition = NoCondition
    /\ blobs_iter = 0
    /\ prev_index_in_inclusion = 0
    /\ completeness_tx_hashes = {}
    /\ content_checks = <<>>
    /\ result = Pending

Init ==
    /\ \E txs \in SeqsUpTo(TxidPool, MaxIncl) :
         \E root \in HeaderRoots(txs) :
           \E blobs_ \in SeqsUpTo(BlobPool, MaxBlobs) :
             Enter([prev_hash |-> GenesisHash, merkle_root |-> root], blobs_, txs)
    /\ chain = <<>>
    /\ combined = NoCombine
    /\ ParserIdle
    /\ BuilderIdle

\* verifier.rs:81-93
Start ==
    /\ pc = "start"
    /\ validity_condition' = ValidityConditionOf(block_header)
    /\ pc' = "completeness"
    /\ UNCHANGED <<block_header, blobs, inclusion_proof, completeness_proof,
                   blobs_iter, prev_index_in_inclusion, completeness_tx_hashes,
                   content_checks, result, chain, combined,
                   parser_vars, builder, selection>>

\* verifier.rs:96-170: the iterator yields one more transaction and the
\* closure runs on it.
CompletenessNext ==
    /\ pc = "completeness"
    /\ \E tx \in TxPool :
         LET r == CompletenessTx(tx, Len(completeness_proof), RollupName,
                                 inclusion_proof.txs, blobs, blobs_iter,
                                 prev_index_in_inclusion)
         IN /\ completeness_proof' = Append(completeness_proof, tx)
            /\ blobs_iter' = r.blobs_iter
            /\ prev_index_in_inclusion' = r.prev_index_in_inclusion
            /\ content_checks' = content_checks \o r.checks
            /\ IF r.panic = ""
                 THEN /\ completeness_tx_hashes' = completeness_tx_hashes \cup {tx.txid}
                      /\ UNCHANGED <<pc, result>>
               ELSE /\ pc' = "panic"
                    /\ result' = PanicWith(r.panic, "closure")
                    /\ UNCHANGED completeness_tx_hashes
    /\ UNCHANGED <<block_header, blobs, inclusion_proof, validity_condition,
                   chain, combined,
                   parser_vars, builder, selection>>

\* verifier.rs:170-176: the iterator is exhausted, the set is collected and
\* the blobs iterator must be exhausted too.
CheckBlobsExhausted ==
    /\ pc = "completeness"
    /\ IF BlobsExhausted(blobs_iter, blobs)
         THEN pc' = "walk" /\ UNCHANGED result
       ELSE pc' = "panic" /\ result' = PanicWith("completeness proof is incorrect", "blobs_exhausted")
    /\ UNCHANGED <<block_header, blobs, inclusion_proof, completeness_proof,
                   validity_condition, blobs_iter, prev_index_in_inclusion,
                   completeness_tx_hashes, content_checks, chain, combined,
                   parser_vars, builder, selection>>

\* verifier.rs:178-187
WalkInclusionProof ==
    /\ pc = "walk"
    /\ LET w == WalkInclusion(inclusion_proof.txs, 1, completeness_tx_hashes)
       IN /\ completeness_tx_hashes' = w.hashes
          /\ IF w.ok
               THEN pc' = "residual" /\ UNCHANGED result
             ELSE /\ pc' = "panic"
                  /\ result' = PanicWith(
                       "relevant transaction in DA block was not included in completeness proof",
                       "walk")
    /\ UNCHANGED <<block_header, blobs, inclusion_proof, completeness_proof,
                   validity_condition, blobs_iter, prev_index_in_inclusion,
                   content_checks, chain, combined,
                   parser_vars, builder, selection>>

\* verifier.rs:189-193
CheckResidual ==
    /\ pc = "residual"
    /\ IF completeness_tx_hashes = {}
         THEN pc' = "merkle" /\ UNCHANGED result
       ELSE /\ pc' = "panic"
            /\ result' = PanicWith("non-relevant transaction found in completeness proof",
                                "residual")
    /\ UNCHANGED <<block_header, blobs, inclusion_proof, completeness_proof,
                   validity_condition, blobs_iter, prev_index_in_inclusion,
                   completeness_tx_hashes, content_checks, chain, combined,
                   parser_vars, builder, selection>>

\* verifier.rs:195-212
CheckMerkleRoot ==
    /\ pc = "merkle"
    /\ LET root_from_inclusion == CalculateRoot(inclusion_proof.txs)
       IN IF ~root_from_inclusion.some
            THEN pc' = "panic" /\ result' = PanicWith("unwrap on None: merkle root", "merkle")
          ELSE IF root_from_inclusion.root # block_header.merkle_root
            THEN pc' = "panic" /\ result' = PanicWith("inclusion proof is incorrect", "merkle")
          ELSE pc' = "done" /\ result' = OkWith(validity_condition)
    /\ UNCHANGED <<block_header, blobs, inclusion_proof, completeness_proof,
                   validity_condition, blobs_iter, prev_index_in_inclusion,
                   completeness_tx_hashes, content_checks, chain, combined,
                   parser_vars, builder, selection>>

Verify ==
    \/ Start
    \/ CompletenessNext
    \/ CheckBlobsExhausted
    \/ WalkInclusionProof
    \/ CheckResidual
    \/ CheckMerkleRoot

Next == Verify

Spec == Init /\ [][Next]_vars

(***************************************************************************)
(* A caller that verifies blocks one after the other and combines the      *)
(* validity conditions it gets back.                                       *)
(***************************************************************************)
ChainTxs == {<<OtherTxid>>, <<OtherTxid, RelevantTxidA>>}
ChainBlobs == {<<>>, <<BlobOf(ContentA, KeyA)>>}

\* Conditions a caller can write down itself: the struct's fields are public.
FirstHash == BlockHash([prev_hash |-> GenesisHash, merkle_root |-> OtherTxid])
ConditionPool == [prev_hash : {GenesisHash, FirstHash}, block_hash : {GenesisHash, FirstHash}]

InitChain ==
    /\ \E txs \in ChainTxs :
         \E root \in HeaderRoots(txs) :
           \E blobs_ \in ChainBlobs :
             Enter([prev_hash |-> GenesisHash, merkle_root |-> root], blobs_, txs)
    /\ chain = <<>>
    /\ combined = NoCombine
    /\ ParserIdle
    /\ BuilderIdle

\* The call returned Ok: the caller keeps the condition and verifies another
\* block, a child of the block just verified or a block with the same parent.
NextBlock ==
    /\ pc = "done"
    /\ Len(chain) + 1 < MaxChain
    /\ chain' = Append(chain, [header |-> block_header, cond |-> result.cond])
    /\ combined' = NoCombine
    /\ \E txs \in ChainTxs :
         \E root \in HeaderRoots(txs) :
           \E blobs_ \in ChainBlobs :
             \E prev \in {BlockHash(block_header), block_header.prev_hash} :
               /\ block_header' = [prev_hash |-> prev, merkle_root |-> root]
               /\ blobs' = blobs_
               /\ inclusion_proof' = [txs |-> txs]
    /\ completeness_proof' = <<>>
    /\ pc' = "start"
    /\ validity_condition' = NoCondition
    /\ blobs_iter' = 0
    /\ prev_index_in_inclusion' = 0
    /\ completeness_tx_hashes' = {}
    /\ content_checks' = <<>>
    /\ result' = Pending
    /\ UNCHANGED <<parser_vars, builder, selection>>

\* The conditions at hand once a call has returned Ok: the returned ones,
\* each with the header it was returned for, and the caller's own.
CombineOperands ==
    {[header |-> chain[i].header, cond |-> chain[i].cond] : i \in 1..Len(chain)}
        \cup {[header |-> block_header, cond |-> result.cond]}
        \cup {[header |-> NoHeader, cond |-> c] : c \in ConditionPool}

\* a.combine(b)
Combine ==
    /\ pc = "done"
    /\ \E a \in CombineOperands :
         \E b \in CombineOperands :
           combined' = [called |-> TRUE, lhs_header |-> a.header, rhs_header |-> b.header,
                        lhs |-> a.cond, rhs |-> b.cond, out |-> combine(a.cond, b.cond)]
    /\ UNCHANGED <<verifier_vars, chain, parser_vars, builder, selection>>

NextChain ==
    \/ Verify
    \/ NextBlock
    \/ Combine

SpecChain == InitChain /\ [][NextChain]_vars

(***************************************************************************)
(* verify_relevant_tx_list as a function of its arguments, for comparing   *)
(* the outcome of a call with the outcome on other arguments.              *)
(***************************************************************************)
\* The map over completeness_proof from transaction k on: the panic that
\* ends it ("" for none) and the blobs iterator after it.
RECURSIVE ClosureOverProof(_, _, _, _, _, _)
ClosureOverProof(completeness, k, txs, blobs_, iter, prev_index) ==
    IF k > Len(completeness) THEN [panic |-> "", blobs_iter |-> iter]
    ELSE LET r == CompletenessTx(completeness[k], k - 1, RollupName, txs, blobs_,
                                 iter, prev_index)
         IN IF r.panic # "" THEN [panic |-> r.panic, blobs_iter |-> r.blobs_iter]
            ELSE ClosureOverProof(completeness, k + 1, txs, blobs_, r.blobs_iter,
                                  r.prev_index_in_inclusion)

\* TRUE when the call returns Ok.
VerifyRelevantTxList(header, blobs_, txs, completeness) ==
    LET closure == ClosureOverProof(completeness, 1, txs, blobs_, 0, 0)
        hashes == {completeness[k].txid : k \in 1..Len(completeness)}
        walk == WalkInclusion(txs, 1, hashes)
        root_from_inclusion == CalculateRoot(txs)
    IN /\ closure.panic = ""
       /\ BlobsExhausted(closure.blobs_iter, blobs_)
       /\ walk.ok
       /\ walk.hashes = {}
       /\ root_from_inclusion.some
       /\ root_from_inclusion.root = header.merkle_root

(***************************************************************************)
(* Calls on blocks of up to MaxBlockTxs transactions, with at most one     *)
(* blob.                                                                   *)
(***************************************************************************)
InitInclusion ==
    /\ \E txs \in SeqsUpTo(TxidPool, MaxBlockTxs) :
         \E root \in HeaderRoots(txs) :
           \E blobs_ \in ChainBlobs :
             Enter([prev_hash |-> GenesisHash, merkle_root |-> root], blobs_, txs)
    /\ chain = <<>>
    /\ combined = NoCombine
    /\ ParserIdle
    /\ BuilderIdle

SpecInclusion == InitInclusion /\ [][Next]_vars

(***************************************************************************)
(* The builder, helpers/builders.rs.                                       *)
(***************************************************************************)
\* The bytes of a non-zero script number: little endian, with a zero byte
\* added when the top bit of the last byte is set.
RECURSIVE ScriptInt(_)
ScriptInt(n) ==
    IF n < 128 THEN <<n>>
    ELSE IF n < 256 THEN <<n, 0>>
    ELSE <<n % 256>> \o ScriptInt(n \div 256)

\* script::Builder::push_int for data >= 0: OP_FALSE for 0 (which decodes as
\* an empty push), the opcode OP_PUSHNUM_n for 1..16, a data push otherwise.
push_int(data) ==
    IF data = 0 THEN Push(<<>>)
    ELSE IF data \in 1..16 THEN Op("OP_PUSHNUM_" \o ToString(data))
    ELSE Push(ScriptInt(data))

\* body.chunks(n): pieces of n bytes, the last one shorter when the length
\* is no multiple of n.
RECURSIVE chunks(_, _)
chunks(body, n) ==
    IF Len(body) = 0 THEN <<>>
    ELSE <<SubSeq(body, 1, Min(n, Len(body)))>> \o chunks(SubSeq(body, Min(n, Len(body)) + 1, Len(body)), n)

\* builders.rs:329-362: the reveal script for one value of random.
RevealScript(rollup_name, body, signature, sequencer_public_key, random) ==
    <<Push(<<1, 1>>), Op("OP_CHECKSIG"), Push(<<>>), Op("OP_IF"),
      Push(ROLLUP_NAME_TAG), Push(rollup_name),
      Push(SIGNATURE_TAG), Push(signature),
      Push(PUBLICKEY_TAG), Push(sequencer_public_key),
      Push(RANDOM_TAG), push_int(random), Push(BODY_TAG)>>
        \o [i \in 1..Len(chunks(body, ChunkLen)) |-> Push(chunks(body, ChunkLen)[i])]
        \o <<Op("OP_ENDIF")>>

\* The serialized length of a script: one byte per opcode, a length byte
\* and the data per push.
RECURSIVE ScriptLen(_)
ScriptLen(s) ==
    IF Len(s) = 0 THEN 0
    ELSE 1 + Len(s[1].bytes) + ScriptLen(Tail(s))

\* get_size, builders.rs:61-86: the vsize of the draft with a 64-byte
\* signature in the witness of input 0, and the script and a 33-byte control
\* block next to it when they are given.  out_len is the length of one
\* output (43 for the taproot commit address, 31 for the recipient).
get_size(n_inputs, n_outputs, out_len, script_, with_script) ==
    LET base == 10 + 41 * n_inputs + out_len * n_outputs
        witness == 2 + n_inputs + 65
                     + (IF with_script THEN 1 + ScriptLen(script_) + 34 ELSE 0)
    IN (4 * base + witness + 3) \div 4

\* ((size as f64) * fee_rate).ceil(), with the fee rate in tenths of a
\* satoshi per vbyte.
FeeFor(size, fee_rate) == (size * fee_rate + 9) \div 10

UTXO(tx_id, amount, spendable, solvable) ==
    [tx_id |-> tx_id, vout |-> 0, amount |-> amount,
     spendable |-> spendable, solvable |-> solvable]

RECURSIVE SumAmounts(_)
SumAmounts(utxos) == IF Len(utxos) = 0 THEN 0 ELSE utxos[1].amount + SumAmounts(Tail(utxos))

\* sort_by with a slip: the list is left in the caller's order.
SortByAmount_Unsorted(utxos, small_first) == utxos

\* sort_by (a stable sort) on the amount, small first or large first.
RECURSIVE SortByAmount(_, _)
SortByAmount(utxos, small_first) ==
    IF Len(utxos) = 0 THEN <<>>
    ELSE LET Before(a, b) == IF small_first THEN a < b ELSE a > b
             first == CHOOSE i \in 1..Len(utxos) :
                          /\ \A j \in 1..Len(utxos) : ~Before(utxos[j].amount, utxos[i].amount)
                          /\ \A j \in 1..(i - 1) : utxos[j].amount # utxos[i].amount
             rest == SubSeq(utxos, 1, first - 1) \o SubSeq(utxos, first + 1, Len(utxos))
         IN <<utxos[first]>> \o SortByAmount(rest, small_first)

\* The for loop with a slip: sum is overwritten by each amount, not added to.
RECURSIVE TakeUntil_SumOverwritten(_, _, _, _, _)
TakeUntil_SumOverwritten(sorted, k, amount, chosen, sum) ==
    IF k > Len(sorted) THEN [chosen |-> chosen, sum |-> sum]
    ELSE IF sorted[k].amount >= amount
      THEN [chosen |-> Append(chosen, sorted[k]), sum |-> sorted[k].amount]
    ELSE TakeUntil_SumOverwritten(sorted, k + 1, amount, Append(chosen, sorted[k]),
                                  sorted[k].amount)

\* The for loop of builders.rs:110-117 from element k on.
RECURSIVE TakeUntil(_, _, _, _, _)
TakeUntil(sorted, k, amount, chosen, sum) ==
    IF k > Len(sorted) THEN [chosen |-> chosen, sum |-> sum]
    ELSE IF sum + sorted[k].amount >= amount
      THEN [chosen |-> Append(chosen, sorted[k]), sum |-> sum + sorted[k].amount]
    ELSE TakeUntil(sorted, k + 1, amount, Append(chosen, sorted[k]), sum + sorted[k].amount)

\* choose_utxos, builders.rs:88-125
choose_utxos(utxos, amount) ==
    LET IsBigger(utxo) == utxo.amount >= amount
        IsSmaller(utxo) == utxo.amount < amount
        bigger_utxos == SortByAmount(SelectSeq(utxos, IsBigger), TRUE)
        smaller_utxos == SortByAmount(SelectSeq(utxos, IsSmaller), FALSE)
        taken == TakeUntil(smaller_utxos, 1, amount, <<>>, 0)
    IN IF Len(bigger_utxos) > 0
         THEN [ok |-> TRUE, err |-> "", chosen |-> <<bigger_utxos[1]>>,
               sum |-> bigger_utxos[1].amount]
       ELSE IF taken.sum < amount
         THEN [ok |-> FALSE, err |-> "not enought UTXOs", chosen |-> <<>>, sum |-> 0]
       ELSE [ok |-> TRUE, err |-> "", chosen |-> taken.chosen, sum |-> taken.sum]

(***************************************************************************)
(* The parser on its own: parse_transaction applied to a reveal script.    *)
(* The scripts are the builder's script with up to MaxBodyChunks body      *)
(* pushes, and every script one instruction away from it (one instruction  *)
(* replaced, inserted or removed), each followed by nothing, by a second   *)
(* envelope, or by other instructions.                                     *)
(***************************************************************************)
KeyC == <<2, 9>>
BodyChunk(i) == <<i, 7>>

\* builders.rs:329-362 with the body in n chunks.
ChunkedScript(n, signature, public_key) ==
    <<Push(<<1, 1>>), Op("OP_CHECKSIG"), Push(<<>>), Op("OP_IF"),
      Push(ROLLUP_NAME_TAG), Push(RollupName),
      Push(SIGNATURE_TAG), Push(signature),
      Push(PUBLICKEY_TAG), Push(public_key),
      Push(RANDOM_TAG), Push(<<44, 1>>), Push(BODY_TAG)>>
        \o [i \in 1..n |-> Push(BodyChunk(i))] \o <<Op("OP_ENDIF")>>

BaseScripts == {ChunkedScript(n, <<48, 1>>, KeyA) : n \in 0..MaxBodyChunks}

\* The instructions an edit can put into a script.
EditInstructions ==
    {Push(<<>>), Push(<<9>>), Op("OP_IF"), Op("OP_ENDIF"), Op("OP_CHECKSIG"),
     Op("OP_PUSHNUM_1"), BadInstruction}

OneEditFrom(base) ==
    {base}
      \cup {[base EXCEPT ![p] = x] : p \in 1..Len(base), x \in EditInstructions}
      \cup {SubSeq(base, 1, p) \o <<x>> \o SubSeq(base, p + 1, Len(base)) :
              p \in 0..Len(base), x \in EditInstructions}
      \cup {SubSeq(base, 1, p - 1) \o SubSeq(base, p + 1, Len(base)) : p \in 1..Len(base)}

\* What follows the first envelope: nothing, a second envelope with other
\* data (tests::two_envelopes), a second envelope with an opcode inside, a
\* second envelope that never ends, or instructions without an envelope.
SecondEnvelope == ChunkedScript(1, <<48, 2>>, KeyC)
ScriptTails ==
    {<<>>,
     SecondEnvelope,
     SubSeq(SecondEnvelope, 1, 6) \o <<Op("OP_CHECKSIG")>> \o SubSeq(SecondEnvelope, 7, 15),
     SubSeq(SecondEnvelope, 3, 14),
     <<Push(<<9>>), Op("OP_CHECKSIG")>>}

ScriptPool == {s \o t : s \in UNION {OneEditFrom(b) : b \in BaseScripts}, t \in ScriptTails}

InitParse ==
    /\ script \in ScriptPool
    /\ parsed = NotParsed
    /\ Enter(NoHeader, <<>>, <<>>)
    /\ chain = <<>>
    /\ combined = NoCombine
    /\ BuilderIdle

\* parsers.rs:27-34
ParseTransaction ==
    /\ parsed = NotParsed
    /\ script # <<>>
    /\ parsed' = parse_transaction(script, RollupName)
    /\ UNCHANGED <<verifier_vars, chain, combined, script, builder, selection>>

NextParse == ParseTransaction

SpecParse == InitParse /\ [][NextParse]_vars

(***************************************************************************)
(* choose_utxos on its own, called as in tests::choose_utxos with a list   *)
(* of up to MaxChosen different UTXOs, two of them of the same amount, and *)
(* a required amount below, at and above the sums the list can reach.      *)
(***************************************************************************)
SelectionPool ==
    {UTXO(11, 600, TRUE, TRUE), UTXO(12, 700, TRUE, TRUE), UTXO(13, 1230, TRUE, TRUE),
     UTXO(14, 3000, TRUE, TRUE), UTXO(15, 2000, FALSE, TRUE), UTXO(16, 700, TRUE, TRUE)}

SelectionLists ==
    {l \in SeqsUpTo(SelectionPool, MaxChosen) : \A i, j \in 1..Len(l) : i # j => l[i] # l[j]}

SelectionAmounts == {0, 546, 700, 1300, 1301, 2000, 4000, 9000}

InitChoose ==
    /\ \E utxos \in SelectionLists, amount \in SelectionAmounts :
         selection = [at |-> "called", utxos |-> utxos, amount |-> amount]
    /\ builder = NotBuilding
    /\ ParserIdle
    /\ Enter(NoHeader, <<>>, <<>>)
    /\ chain = <<>>
    /\ combined = NoCombine

\* builders.rs:88-125
ChooseUtxos ==
    /\ selection.at = "called"
    /\ selection' = [at |-> "returned", utxos |-> selection.utxos,
                     amount |-> selection.amount,
                     res |-> choose_utxos(selection.utxos, selection.amount)]
    /\ UNCHANGED <<verifier_vars, chain, combined, parser_vars, builder>>

NextChoose == ChooseUtxos

SpecChoose == InitChoose /\ [][NextChoose]_vars

(***************************************************************************)
(* create_inscription_transactions, step by step.  builder holds the       *)
(* arguments and the locals of the call; fee rates are in tenths of a      *)
(* satoshi per vbyte.                                                      *)
(***************************************************************************)
NoTx == [input |-> <<>>, output |-> <<>>, script_pubkey |-> <<>>, txid |-> <<>>,
         script |-> <<>>]

\* Address::p2tr(.., taproot_spend_info.merkle_root(), ..), builders.rs:380-385:
\* the commit address commits to the reveal script.
CommitTxAddress(reveal_script) == [kind |-> "p2tr", leaf |-> reveal_script]

\* The recipient argument of create_inscription_transactions.
Recipient == [kind |-> "recipient", leaf |-> <<>>]

\* TxIn with a slip: the input spends the output after the one named.
TxIn_NextVout(txid, vout, value) == [txid |-> txid, vout |-> vout + 1, value |-> value]

\* A transaction input spending output vout of txid, worth value.
TxIn(txid, vout, value) == [txid |-> txid, vout |-> vout, value |-> value]

\* unsigned_commit_tx.txid(): the hash of inputs, outputs and the commit
\* address, which commits to the reveal script and so to random.
CommitTxid(input, output, random) ==
    Sha256d([i \in 1..Len(input) |-> input[i].txid] \o output \o <<random>>)

\* The first two bytes a reveal txid can start with.
HashPrefixes == {<<0, 0>>, <<0, 1>>, <<1, 0>>}

\* reveal_hash.starts_with(&[0, 0]) with a slip: one byte is compared.
RevealHashOk_FirstByte(reveal_hash) == reveal_hash[1] = 0

\* reveal_hash.starts_with(&[0, 0]), builders.rs:407
RevealHashOk(reveal_hash) == SubSeq(reveal_hash, 1, 2) = <<0, 0>>

BodyPool == {ContentA, compress_blob(ContentA), <<7, 8, 9>>, <<7, 8, 9, 7, 8>>}

UtxoPool ==
    {UTXO(11, 600, TRUE, TRUE), UTXO(12, 700, TRUE, TRUE), UTXO(13, 1230, TRUE, TRUE),
     UTXO(14, 3000, TRUE, TRUE), UTXO(15, 2000, FALSE, TRUE)}

\* Lists of different UTXOs.
UtxoLists ==
    {l \in SeqsUpTo(UtxoPool, MaxUtxos) : \A i, j \in 1..Len(l) : i # j => l[i] # l[j]}

FeeRates == {10, 25}

NewBuild(body, utxos, commit_fee_rate, reveal_fee_rate) ==
    [at |-> "attempt", rollup_name |-> RollupName, body |-> body,
     signature |-> SignEcdsa(Sha256d(body), KeyA), sequencer_public_key |-> KeyA,
     utxos |-> utxos, commit_fee_rate |-> commit_fee_rate,
     reveal_fee_rate |-> reveal_fee_rate, random |-> 0, reveal_script |-> <<>>,
     spendable |-> <<>>, size |-> 0, last_size |-> 0,
     unsigned_commit_tx |-> NoTx, reveal_tx |-> NoTx, err |-> ""]

InitBuild ==
    /\ \E body \in BodyPool, utxos \in UtxoLists, cfr \in FeeRates, rfr \in FeeRates :
         builder = NewBuild(body, utxos, cfr, rfr)
    /\ selection = NotChoosing
    /\ ParserIdle
    /\ Enter(NoHeader, <<>>, <<>>)
    /\ chain = <<>>
    /\ combined = NoCombine

\* The filter with a slip: spendable is not looked at.
IsEligible_SpendableUnchecked(utxo) == utxo.solvable /\ utxo.amount > 546

\* The filter of builders.rs:158.
IsEligible(utxo) == utxo.spendable /\ utxo.solvable /\ utxo.amount > 546

\* builders.rs:345-389 and 134-164: the script for this value of random, and
\* the entry of build_commit_transaction.
StartAttempt ==
    /\ builder.at = "attempt"
    /\ LET usable == SelectSeq(builder.utxos, IsEligible)
           size == get_size(1, 1, 43, <<>>, FALSE)
           b == [builder EXCEPT
                   !.reveal_script = RevealScript(builder.rollup_name, builder.body,
                                                  builder.signature,
                                                  builder.sequencer_public_key,
                                                  builder.random),
                   !.spendable = usable, !.size = size, !.last_size = size,
                   !.unsigned_commit_tx = NoTx, !.reveal_tx = NoTx]
       IN builder' = IF Len(usable) = 0
                       THEN [b EXCEPT !.at = "err", !.err = "no spendable utxos"]
                     ELSE [b EXCEPT !.at = "commit_loop"]
    /\ UNCHANGED <<verifier_vars, chain, combined, parser_vars, selection>>

\* builders.rs:166-220: one pass of the loop of build_commit_transaction.
CommitLoop ==
    /\ builder.at = "commit_loop"
    /\ LET fee == FeeFor(builder.size, builder.commit_fee_rate)
           input_total == 546 + fee
           res == choose_utxos(builder.spendable, input_total)
           outputs == IF res.sum - input_total >= 546
                        THEN <<546, res.sum - input_total>> ELSE <<546>>
           recipient == CommitTxAddress(builder.reveal_script)
           inputs == [i \in 1..Len(res.chosen) |->
                         TxIn(res.chosen[i].tx_id, res.chosen[i].vout, res.chosen[i].amount)]
           size == get_size(Len(inputs), Len(outputs), 43, <<>>, FALSE)
       IN builder' =
            IF ~res.ok
              THEN [builder EXCEPT !.at = "err", !.err = "utxos are not enough"]
            ELSE IF size = builder.last_size
              THEN [builder EXCEPT
                      !.at = "reveal_start", !.size = size,
                      !.unsigned_commit_tx =
                          [input |-> inputs, output |-> outputs,
                           script_pubkey |-> [i \in 1..Len(outputs) |-> recipient],
                           txid |-> CommitTxid(inputs, outputs, builder.random),
                           script |-> <<>>]]
            ELSE [builder EXCEPT !.size = size, !.last_size = size]
    /\ UNCHANGED <<verifier_vars, chain, combined, parser_vars, selection>>

\* builders.rs:391-402 and 235-259: the entry of build_reveal_transaction
\* with output 0 of the commit transaction as its input.
RevealStart ==
    /\ builder.at = "reveal_start"
    /\ LET size == get_size(1, 1, 31, builder.reveal_script, TRUE)
           input_utxo == builder.unsigned_commit_tx.output[1]
       IN builder' =
            IF input_utxo < 546
              THEN [builder EXCEPT !.at = "err", !.err = "input utxo not big enough"]
            ELSE [builder EXCEPT !.at = "reveal_loop", !.size = size, !.last_size = size]
    /\ UNCHANGED <<verifier_vars, chain, combined, parser_vars, selection>>

\* builders.rs:261-304: one pass of the loop of build_reveal_transaction.
RevealLoop ==
    /\ builder.at = "reveal_loop"
    /\ LET fee == FeeFor(builder.size, builder.reveal_fee_rate)
           input_total == 546 + fee
           input_utxo == builder.unsigned_commit_tx.output[1]
           outputs == IF input_utxo >= input_total /\ input_utxo - input_total >= 546
                        THEN <<546, input_utxo - input_total>> ELSE <<546>>
           inputs == <<TxIn(builder.unsigned_commit_tx.txid, 0, input_utxo)>>
           size == get_size(1, Len(outputs), 31, builder.reveal_script, TRUE)
       IN builder' =
            IF size = builder.last_size
              THEN [builder EXCEPT
                      !.at = "check_hash", !.size = size,
                      !.reveal_tx = [input |-> inputs, output |-> outputs,
                                     script_pubkey |->
                                         [i \in 1..Len(outputs) |-> Recipient],
                                     txid |-> <<>>, script |-> <<>>]]
            ELSE [builder EXCEPT !.size = size, !.last_size = size]
    /\ UNCHANGED <<verifier_vars, chain, combined, parser_vars, selection>>

\* builders.rs:404-449: the txid of the reveal transaction is looked at; the
\* pair is returned with the reveal script in the witness, or random goes up
\* by one and the loop starts again.
CheckRevealHash ==
    /\ builder.at = "check_hash"
    /\ \E prefix \in HashPrefixes :
         LET reveal_hash == prefix \o <<builder.random>>
         IN IF RevealHashOk(reveal_hash)
              THEN builder' = [builder EXCEPT
                                 !.at = "returned",
                                 !.reveal_tx.txid = reveal_hash,
                                 !.reveal_tx.script = builder.reveal_script]
            ELSE /\ builder.random < MaxNonce
                 /\ builder' = [builder EXCEPT !.at = "attempt", !.random = @ + 1]
    /\ UNCHANGED <<verifier_vars, chain, combined, parser_vars, selection>>

\* parse_transaction(&reveal, rollup_name), builders.rs:659
ParseRevealTx ==
    /\ builder.at = "returned"
    /\ parsed = NotParsed
    /\ script' = builder.reveal_tx.script
    /\ parsed' = parse_transaction(builder.reveal_tx.script, builder.rollup_name)
    /\ UNCHANGED <<verifier_vars, chain, combined, builder, selection>>

NextBuild ==
    \/ StartAttempt
    \/ CommitLoop
    \/ RevealStart
    \/ RevealLoop
    \/ CheckRevealHash
    \/ ParseRevealTx

SpecBuild == InitBuild /\ [][NextBuild]_vars

\* The loops of builders.rs:166-220 and 261-304 are sequential code: a pass
\* that can be made is made.
SpecBuildFair ==
    /\ InitBuild
    /\ [][NextBuild]_vars
    /\ WF_vars(StartAttempt)
    /\ WF_vars(CommitLoop)
    /\ WF_vars(RevealStart)
    /\ WF_vars(RevealLoop)

(***************************************************************************)
(* Vocabulary of the properties.                                           *)
(***************************************************************************)
Accepted == pc = "done"
Rejected == pc = "panic"
Finished == Accepted \/ Rejected

\* The proof-of-work tag, read off the txid.
HasPowTag(txid) == SubSeq(txid, 1, 2) = <<0, 0>>

TxidsOf(txs) == [k \in 1..Len(txs) |-> txs[k].txid]

ParsedOf(tx) == parse_transaction(TapscriptOf(tx.witness), RollupName)

\* The envelope parses and its signature verifies under its public key.
ValidInscription(tx) ==
    LET p == ParsedOf(tx)
    IN p.ok /\ VerifyEcdsa(Sha256d(p.body), p.signature, p.public_key)

ValidTxs(txs) == SelectSeq(txs, ValidInscription)

BlobHashAndSenderMatch(blob, tx) ==
    LET p == ParsedOf(tx)
    IN blob.hash = Sha256d(p.body) /\ blob.sender = p.public_key

BlobMatches(blob, tx) ==
    LET d == decompress_blob(ParsedOf(tx).body)
    IN BlobHashAndSenderMatch(blob, tx) /\ d.ok /\ blob.blob = d.data

\* The last transaction the completeness iterator yielded and the ones before.
LastTx == completeness_proof[Len(completeness_proof)]
EarlierTxs == SubSeq(completeness_proof, 1, Len(completeness_proof) - 1)

\* A panic raised by the closure while it handled LastTx.
ClosurePanic == Rejected /\ result.at = "closure"

\* c embeds into txs: its txids are found at strictly increasing positions.
Embeds(c, txs) ==
    \E f \in [1..Len(c) -> 1..Len(txs)] :
        /\ \A k \in 1..Len(c) : txs[f[k]] = c[k].txid
        /\ \A k \in 2..Len(c) : f[k - 1] < f[k]

\* The tagged txids of the inclusion proof are pairwise distinct, as the
\* txids of one block are.
DistinctTagged ==
    \A i, j \in 1..Len(inclusion_proof.txs) :
        (i # j /\ HasPowTag(inclusion_proof.txs[i])) =>
            inclusion_proof.txs[i] # inclusion_proof.txs[j]

MerkleRootMatches ==
    LET r == CalculateRoot(inclusion_proof.txs)
    IN r.some /\ r.root = block_header.merkle_root

\* The shape of a correct triple: the completeness proof lists exactly the
\* tagged txids of the inclusion proof in block order, and the blobs are, one
\* for one and in order, those of the valid inscriptions.
WellFormedTriple ==
    LET valid == ValidTxs(completeness_proof)
    IN /\ TxidsOf(completeness_proof) = SelectSeq(inclusion_proof.txs, HasPowTag)
       /\ Len(blobs) = Len(valid)
       /\ \A k \in 1..Len(valid) : BlobMatches(blobs[k], valid[k])
       /\ MerkleRootMatches

MsgNonRelevant == "non-relevant tx found in completeness proof"
MsgNotFound == "tx in completeness proof is not found in DA block or order was not preserved"
MsgTampered == "blobs was tampered with"
MsgSender == "incorrect sender in blob"
MsgContent == "blob content was modified"
MsgIncomplete == "completeness proof is incorrect"
MsgLeftOut == "relevant transaction in DA block was not included in completeness proof"

(***************************************************************************)
(* Properties.                                                             *)
(***************************************************************************)

\* C1: a finished call has accepted exactly when the triple is well formed:
\* every well-formed triple is accepted and every accepted triple is well
\* formed.  Stated for inclusion proofs that repeat no tagged txid.
C1_AcceptsIffWellFormed ==
    (Finished /\ DistinctTagged) => (Accepted <=> WellFormedTriple)

\* C2: an accepted call returns the header's prev_hash as prev_hash and the
\* header's own block hash as block_hash.
C2_ReturnsHeaderHashes ==
    Accepted =>
        /\ result.cond.prev_hash = block_header.prev_hash
        /\ result.cond.block_hash = BlockHash(block_header)

\* C3: the conditions returned for two headers combine without error when the
\* second header's prev_hash is the block hash of the first, and fail with
\* BlocksNotConsecutive when it is not.
C3_ReturnedConditionsCompose ==
    (combined.called /\ combined.lhs_header # NoHeader /\ combined.rhs_header # NoHeader
        /\ combined.lhs_header # combined.rhs_header) =>
        IF combined.rhs_header.prev_hash = BlockHash(combined.lhs_header)
          THEN combined.out.ok
        ELSE ~combined.out.ok /\ combined.out.err = "BlocksNotConsecutive"

\* C4: a.combine(b) is Ok exactly when a.block_hash = b.prev_hash, the Ok
\* value is b, and every other case is Err(BlocksNotConsecutive).
C4_CombineRule ==
    combined.called =>
        /\ combined.out.ok <=> (combined.lhs.block_hash = combined.rhs.prev_hash)
        /\ combined.out.ok => combined.out.value = combined.rhs
        /\ ~combined.out.ok => combined.out.err = "BlocksNotConsecutive"

\* C4 witness: a successful combination of two different conditions.
C4_Witness ==
    /\ combined.called
    /\ combined.out.ok
    /\ combined.lhs # combined.rhs
    /\ combined.lhs.block_hash # combined.lhs.prev_hash

\* C5: the blob whose content is compared is the blob taken from the blob
\* iterator for that transaction.
C5_ContentOfTakenBlob ==
    \A k \in 1..Len(content_checks) : content_checks[k].content = content_checks[k].taken

\* C6: a tagged transaction of the inclusion proof whose envelope does not
\* parse or whose signature does not verify takes no blob, is counted as
\* seen, does not fail the call, and does not make the call fail on a valid
\* transaction that comes with its own blob (the last part stated for
\* inclusion proofs that repeat no tagged txid).
C6_SkippedTxIsHarmless ==
    /\ pc = "completeness" =>
          /\ blobs_iter = Len(ValidTxs(completeness_proof))
          /\ \A k \in 1..Len(completeness_proof) :
                completeness_proof[k].txid \in completeness_tx_hashes
    /\ (ClosurePanic /\ HasPowTag(LastTx.txid) /\ ~ValidInscription(LastTx)) =>
          result.msg = MsgNotFound
    /\ (ClosurePanic /\ ValidInscription(LastTx) /\ DistinctTagged
          /\ result.msg \notin {MsgNonRelevant, MsgNotFound}
          /\ Len(ValidTxs(EarlierTxs)) < Len(blobs)) =>
          ~BlobMatches(blobs[Len(ValidTxs(EarlierTxs)) + 1], LastTx)

\* C7: the completeness proof of a call that got past the closure embeds into
\* the inclusion proof at strictly increasing positions; a tagged transaction
\* that breaks this, by being absent or out of order, ends the call with the
\* not-found message.
C7_OrderPreserved ==
    /\ pc \in {"completeness", "walk", "residual", "merkle", "done"} =>
          Embeds(completeness_proof, inclusion_proof.txs)
    /\ (ClosurePanic /\ HasPowTag(LastTx.txid)
          /\ ~Embeds(completeness_proof, inclusion_proof.txs)) =>
          result.msg = MsgNotFound
    /\ (Rejected /\ result.msg = MsgNotFound) =>
          ~Embeds(completeness_proof, inclusion_proof.txs)

\* C7 witness: the second transaction is in the inclusion proof, but before
\* the position of the first, and the call ended with the not-found message.
C7_Witness ==
    /\ Rejected
    /\ result.msg = MsgNotFound
    /\ Len(completeness_proof) = 2
    /\ \E i \in 1..Len(inclusion_proof.txs) : inclusion_proof.txs[i] = LastTx.txid
    /\ LastTx.txid # completeness_proof[1].txid

\* C8: no call is accepted while a tagged txid of the inclusion proof is not
\* the txid of a completeness-proof transaction.
C8_NoRelevantTxLeftOut ==
    Accepted =>
        \A i \in 1..Len(inclusion_proof.txs) :
            HasPowTag(inclusion_proof.txs[i]) =>
                \E k \in 1..Len(completeness_proof) :
                    completeness_proof[k].txid = inclusion_proof.txs[i]

\* C8 witness: the walk over the inclusion proof found a tagged txid that no
\* completeness-proof transaction has, and rejected.
C8_Witness ==
    /\ Rejected
    /\ result.at = "walk"
    /\ result.msg = MsgLeftOut
    /\ \E i \in 1..Len(inclusion_proof.txs) :
          /\ HasPowTag(inclusion_proof.txs[i])
          /\ \A k \in 1..Len(completeness_proof) :
                completeness_proof[k].txid # inclusion_proof.txs[i]

\* C9: an accepted call has as many blobs as valid inscriptions, the k-th
\* blob carrying the hash and the sender of the k-th; the closure reports a
\* blob with another hash as tampered and one with another sender as an
\* incorrect sender, and a blob left over as an incorrect completeness proof.
C9_BlobsMatchInOrder ==
    /\ Accepted =>
          LET valid == ValidTxs(completeness_proof)
          IN /\ Len(blobs) = Len(valid)
             /\ \A k \in 1..Len(valid) : BlobHashAndSenderMatch(blobs[k], valid[k])
    /\ (ClosurePanic /\ ValidInscription(LastTx) /\ result.msg \notin {MsgNonRelevant, MsgNotFound}
          /\ Len(ValidTxs(EarlierTxs)) < Len(blobs)) =>
          LET blob == blobs[Len(ValidTxs(EarlierTxs)) + 1]
              p == ParsedOf(LastTx)
          IN /\ blob.hash # Sha256d(p.body) => result.msg = MsgTampered
             /\ (blob.hash = Sha256d(p.body) /\ blob.sender # p.public_key) =>
                   result.msg = MsgSender
    /\ (Rejected /\ result.at = "blobs_exhausted") =>
          /\ result.msg = MsgIncomplete
          /\ Len(blobs) > Len(ValidTxs(completeness_proof))
    /\ pc \in {"walk", "residual", "merkle", "done"} =>
          Len(blobs) = Len(ValidTxs(completeness_proof))

\* C9 witness: two valid inscriptions with their two blobs swapped, rejected
\* as tampered.
C9_Witness ==
    /\ Rejected
    /\ result.msg = MsgTampered
    /\ Len(blobs) = 2
    /\ BlobMatches(blobs[2], LastTx)
    /\ blobs[1] # blobs[2]

\* C10: no call is accepted with an untagged transaction in the completeness
\* proof, and the closure ends on such a transaction with the non-relevant
\* message, also when the transaction is in the inclusion proof.
C10_NonRelevantRejected ==
    /\ Accepted => \A k \in 1..Len(completeness_proof) : HasPowTag(completeness_proof[k].txid)
    /\ (ClosurePanic /\ ~HasPowTag(LastTx.txid)) => result.msg = MsgNonRelevant

\* C10 witness: the untagged transaction follows a valid inscription that
\* passed with its blob, it is in the inclusion proof, and the header's merkle
\* root is that of the inclusion proof.
C10_Witness ==
    /\ Rejected
    /\ result.msg = MsgNonRelevant
    /\ Len(completeness_proof) = 2
    /\ ValidInscription(completeness_proof[1])
    /\ Len(blobs) = 1
    /\ blobs_iter = 1
    /\ \E i \in 1..Len(inclusion_proof.txs) : inclusion_proof.txs[i] = LastTx.txid
    /\ MerkleRootMatches

\* Inclusion proofs that differ from txs by one added txid, one removed
\* txid, or two txids that changed places.
AddedTo(txs) ==
    {SubSeq(txs, 1, p) \o <<x>> \o SubSeq(txs, p + 1, Len(txs)) :
        p \in 0..Len(txs), x \in TxidPool}
RemovedFrom(txs) ==
    {SubSeq(txs, 1, p - 1) \o SubSeq(txs, p + 1, Len(txs)) : p \in 1..Len(txs)}
Reordered(txs) ==
    {[k \in 1..Len(txs) |-> IF k = p THEN txs[q] ELSE IF k = q THEN txs[p] ELSE txs[k]] :
        p \in 1..Len(txs), q \in 1..Len(txs)} \ {txs}

\* C11: an accepted call has an inclusion proof whose merkle root is the
\* header's, and the same call with one txid added to, removed from or moved
\* in that inclusion proof is not accepted.
C11_InclusionProofIsTheBlock ==
    Accepted =>
        /\ MerkleRootMatches
        /\ \A other \in AddedTo(inclusion_proof.txs) \cup RemovedFrom(inclusion_proof.txs)
                          \cup Reordered(inclusion_proof.txs) :
              ~VerifyRelevantTxList(block_header, blobs, other, completeness_proof)

\* C12: a call that does not return Ok returns an Err value; it does not
\* panic.
C12_FailuresAreErrValues ==
    Rejected => result.kind = "Err"

(***************************************************************************)
(* Vocabulary of the parser properties: the envelope of a script as the    *)
(* specification describes it.                                             *)
(***************************************************************************)
IsPush(instruction) == instruction.kind = "push"
IsOpcode(instruction, name) == instruction.kind = "op" /\ instruction.op = name
LeastOf(S, default) == IF S = {} THEN default ELSE CHOOSE k \in S : \A j \in S : k <= j

\* The first IF that directly follows a FALSE; 0 when there is none.
EnvelopeOpenAt(s) ==
    LeastOf({k \in 2..Len(s) : IsOpcode(s[k], "OP_IF") /\ s[k - 1] = Push(<<>>)}, 0)

\* That IF is the first IF of the script and every instruction before it decodes.
ProperlyOpened(s) ==
    /\ EnvelopeOpenAt(s) > 0
    /\ \A k \in 1..(EnvelopeOpenAt(s) - 1) : ~IsOpcode(s[k], "OP_IF") /\ s[k].kind # "bad"

\* Where the envelope stops: its ENDIF, an undecodable byte, or the end of
\* the script.
EnvelopeEndAt(s) ==
    LeastOf({k \in (EnvelopeOpenAt(s) + 1)..Len(s) :
                IsOpcode(s[k], "OP_ENDIF") \/ s[k].kind = "bad"}, Len(s) + 1)

InsideEnvelope(s) == SubSeq(s, EnvelopeOpenAt(s) + 1, EnvelopeEndAt(s) - 1)

AllPushes(instructions) == \A k \in 1..Len(instructions) : IsPush(instructions[k])

ExpectedPush(i) ==
    CASE i = 0 -> ROLLUP_NAME_TAG
      [] i = 1 -> RollupName
      [] i = 2 -> SIGNATURE_TAG
      [] i = 4 -> PUBLICKEY_TAG
      [] i = 6 -> RANDOM_TAG
      [] i = 8 -> BODY_TAG

\* The checked positions (zero-based) at which a list of pushes is wrong.
PositionMismatches(pushes) ==
    {i \in {0, 1, 2, 4, 6, 8} : i < Len(pushes) /\ pushes[i + 1].bytes # ExpectedPush(i)}

RECURSIVE ConcatBytes(_, _)
ConcatBytes(pushes, from) ==
    IF from > Len(pushes) THEN <<>>
    ELSE pushes[from].bytes \o ConcatBytes(pushes, from + 1)

ParseReturned == parsed # NotParsed

(***************************************************************************)
(* Vocabulary of the builder properties.                                   *)
(***************************************************************************)
Returned == builder.at = "returned"

RECURSIVE SumValues(_)
SumValues(input) == IF Len(input) = 0 THEN 0 ELSE input[1].value + SumValues(Tail(input))

\* The vsize of the two returned transactions.
CommitVsize ==
    get_size(Len(builder.unsigned_commit_tx.input), Len(builder.unsigned_commit_tx.output),
             43, <<>>, FALSE)
RevealVsize ==
    get_size(1, Len(builder.reveal_tx.output), 31, builder.reveal_tx.script, TRUE)

\* Inputs cover the first output and the fee for vsize; change is no dust.
FeeCovered(tx, vsize, fee_rate) ==
    /\ SumValues(tx.input) >= tx.output[1] + FeeFor(vsize, fee_rate)
    /\ Len(tx.output) > 1 => tx.output[2] >= 546

\* C13: the reveal transaction of a returned pair parses, with the builder's
\* rollup name, to the body, the signature and the public key passed in.
C13_BuildParseRoundTrip ==
    (Returned /\ ParseReturned) =>
        /\ parsed.ok
        /\ parsed.body = builder.body
        /\ parsed.signature = builder.signature
        /\ parsed.public_key = builder.sequencer_public_key

\* C14: the txid of a returned reveal transaction starts with 0x00 0x00.
C14_RevealTxidTagged ==
    Returned => HasPowTag(builder.reveal_tx.txid)

\* C14 witness: a pair returned after attempts whose txid missed the tag.
C14_Witness ==
    /\ Returned
    /\ builder.random >= 2
    /\ HasPowTag(builder.reveal_tx.txid)
    /\ builder.reveal_tx.script = builder.reveal_script

\* C15: in a returned pair, the inputs of the commit transaction and of the
\* reveal transaction cover the first output plus the fee for the final
\* vsize, and a change output is at least 546.
C15_InputsCoverOutputAndFee ==
    Returned =>
        /\ FeeCovered(builder.unsigned_commit_tx, CommitVsize, builder.commit_fee_rate)
        /\ FeeCovered(builder.reveal_tx, RevealVsize, builder.reveal_fee_rate)

\* C16: decompressing the body parsed from a returned reveal transaction
\* gives the body passed to the builder.
C16_BodyIsCompressed ==
    (Returned /\ ParseReturned /\ parsed.ok) =>
        /\ decompress_blob(parsed.body).ok
        /\ decompress_blob(parsed.body).data = builder.body

\* C17: in a properly opened envelope, an instruction that is neither a data
\* push nor the closing ENDIF, reached before any push is wrong for its
\* position, makes the parser return EnvelopeHasNonPushOp; a nested IF too.
C17_NonPushOpRejected ==
    (ParseReturned /\ ProperlyOpened(script) /\ ~AllPushes(InsideEnvelope(script))) =>
        LET inside == InsideEnvelope(script)
            j == LeastOf({k \in 1..Len(inside) : ~IsPush(inside[k])}, 0)
        IN PositionMismatches(SubSeq(inside, 1, j - 1)) = {} =>
              ~parsed.ok /\ parsed.err = "EnvelopeHasNonPushOp"

\* C18: for an envelope of data pushes, the result is decided by position:
\* the earliest wrong push among positions 0, 1, 2, 4, 6, 8 gives the error
\* (InvalidRollupName at 1, EnvelopeHasIncorrectFormat elsewhere); Ok is
\* returned only with all six right, and then with push 3 as the signature,
\* push 5 as the public key and pushes 9.. concatenated as the body.
C18_PushesCheckedByPosition ==
    (ParseReturned /\ ProperlyOpened(script) /\ AllPushes(InsideEnvelope(script))) =>
        LET pushes == InsideEnvelope(script)
            wrong == PositionMismatches(pushes)
        IN /\ wrong # {} =>
                /\ ~parsed.ok
                /\ parsed.err = IF LeastOf(wrong, 0) = 1 THEN "InvalidRollupName"
                                ELSE "EnvelopeHasIncorrectFormat"
           /\ parsed.ok =>
                /\ Len(pushes) >= 10
                /\ \A i \in {0, 1, 2, 4, 6, 8} : pushes[i + 1].bytes = ExpectedPush(i)
                /\ parsed.signature = pushes[4].bytes
                /\ parsed.public_key = pushes[6].bytes
                /\ parsed.body = ConcatBytes(pushes, 10)

\* C18 witness: two body pushes, returned as one body in their order.
C18_Witness ==
    /\ parsed.ok
    /\ ProperlyOpened(script)
    /\ Len(InsideEnvelope(script)) = 11
    /\ parsed.body = BodyChunk(1) \o BodyChunk(2)
    /\ parsed.signature = <<48, 1>>
    /\ parsed.public_key = KeyA

\* C19: Ok comes with a non-empty body, signature and public key; a script
\* without an envelope, an envelope of fewer than ten right pushes, and an
\* envelope with an empty push at position 3 or 5 give
\* EnvelopeHasIncorrectFormat.
C19_EmptyFieldRejected ==
    /\ parsed.ok => parsed.body # <<>> /\ parsed.signature # <<>> /\ parsed.public_key # <<>>
    /\ (ParseReturned /\ \A k \in 1..Len(script) : ~IsOpcode(script[k], "OP_IF")) =>
          ~parsed.ok /\ parsed.err = "EnvelopeHasIncorrectFormat"
    /\ (ParseReturned /\ ProperlyOpened(script) /\ AllPushes(InsideEnvelope(script))
          /\ PositionMismatches(InsideEnvelope(script)) = {}) =>
          LET pushes == InsideEnvelope(script)
          IN (\/ Len(pushes) < 10
              \/ pushes[4].bytes = <<>>
              \/ pushes[6].bytes = <<>>) =>
                ~parsed.ok /\ parsed.err = "EnvelopeHasIncorrectFormat"

\* C19 witness: a complete envelope whose signature push is empty.
C19_Witness ==
    /\ ParseReturned
    /\ parsed.err = "EnvelopeHasIncorrectFormat"
    /\ ProperlyOpened(script)
    /\ AllPushes(InsideEnvelope(script))
    /\ PositionMismatches(InsideEnvelope(script)) = {}
    /\ Len(InsideEnvelope(script)) >= 10
    /\ InsideEnvelope(script)[4].bytes = <<>>
    /\ InsideEnvelope(script)[10].bytes # <<>>

\* C20: the result for a script whose first envelope is closed by an ENDIF is
\* the result for the script cut off after that ENDIF.
C20_FirstEnvelopeDecides ==
    (ParseReturned /\ ProperlyOpened(script) /\ EnvelopeEndAt(script) <= Len(script)
        /\ IsOpcode(script[EnvelopeEndAt(script)], "OP_ENDIF")) =>
        parsed = parse_relevant_inscriptions(SubSeq(script, 1, EnvelopeEndAt(script)),
                                             RollupName)

\* C20 witness: a second envelope with another signature and key follows,
\* and the first envelope's data are returned.
C20_Witness ==
    /\ parsed.ok
    /\ ProperlyOpened(script)
    /\ \E k \in (EnvelopeEndAt(script) + 1)..Len(script) : script[k] = Push(KeyC)
    /\ parsed.public_key = KeyA
    /\ parsed.signature = <<48, 1>>


\* C21: in every returned pair the reveal transaction has exactly one input,
\* which spends output 0 of the returned commit transaction; output 0 of the
\* commit transaction is 546 satoshi to the taproot commit address, and
\* output 0 of the reveal transaction is 546 satoshi to the recipient.
C21_RevealSpendsCommitOutput ==
    Returned =>
        LET commit == builder.unsigned_commit_tx
            reveal == builder.reveal_tx
        IN /\ Len(reveal.input) = 1
           /\ reveal.input[1].txid =
                  CommitTxid(commit.input, commit.output, builder.random)
           /\ reveal.input[1].vout = 0
           /\ commit.output[1] = 546
           /\ commit.script_pubkey[1] = CommitTxAddress(reveal.script)
           /\ reveal.output[1] = 546
           /\ reveal.script_pubkey[1] = Recipient

\* A pair returned at the second attempt, its commit transaction with a
\* change output.
C21_Witness ==
    /\ Returned
    /\ builder.random = 1
    /\ Len(builder.unsigned_commit_tx.output) = 2
    /\ Len(builder.unsigned_commit_tx.input) = 1


\* The UTXOs of the caller's list that are spendable, solvable and worth
\* more than 546 satoshi.
EligibleUtxos ==
    LET Ok(utxo) == utxo.spendable /\ utxo.solvable /\ utxo.amount > 546
    IN SelectSeq(builder.utxos, Ok)

CommitBuilt == builder.at \in {"reveal_start", "reveal_loop", "check_hash", "returned"}

\* C22: every input of a built commit transaction refers to a UTXO of the
\* caller's list that is spendable, solvable and worth more than 546 satoshi,
\* and no UTXO is used twice; with no such UTXO the build fails with "no
\* spendable utxos" at the first attempt and nothing else happens; when the
\* eligible UTXOs cannot cover 546 satoshi plus the fee the build fails with
\* "utxos are not enough" and no commit transaction is built.
C22_CommitInputsAreEligible ==
    /\ CommitBuilt =>
         LET input == builder.unsigned_commit_tx.input
         IN /\ \A i \in 1..Len(input) :
                 \E k \in 1..Len(EligibleUtxos) :
                     /\ input[i].txid = EligibleUtxos[k].tx_id
                     /\ input[i].vout = EligibleUtxos[k].vout
                     /\ input[i].value = EligibleUtxos[k].amount
            /\ \A i, j \in 1..Len(input) :
                 i # j => <<input[i].txid, input[i].vout>> # <<input[j].txid, input[j].vout>>
            /\ SumAmounts(EligibleUtxos) >=
                   546 + FeeFor(get_size(Len(input), Len(builder.unsigned_commit_tx.output),
                                         43, <<>>, FALSE),
                                builder.commit_fee_rate)
    /\ (builder.at # "attempt" /\ Len(EligibleUtxos) = 0) =>
         /\ builder.at = "err"
         /\ builder.err = "no spendable utxos"
         /\ builder.random = 0
         /\ builder.unsigned_commit_tx = NoTx
    /\ (builder.at = "err" /\ builder.err = "no spendable utxos") =>
         Len(EligibleUtxos) = 0
    /\ (builder.at = "err" /\ builder.err = "utxos are not enough") =>
         /\ Len(EligibleUtxos) > 0
         /\ SumAmounts(EligibleUtxos) <
                546 + FeeFor(builder.size, builder.commit_fee_rate)
         /\ builder.unsigned_commit_tx = NoTx
    /\ (builder.at # "attempt" /\ Len(EligibleUtxos) > 0
        /\ SumAmounts(EligibleUtxos) <
               546 + FeeFor(get_size(1, 1, 43, <<>>, FALSE), builder.commit_fee_rate)) =>
         /\ builder.at \in {"commit_loop", "err"}
         /\ builder.at = "err" => builder.err = "utxos are not enough"

\* A commit transaction built from both UTXOs of a list.
C22_Witness ==
    /\ CommitBuilt
    /\ Len(builder.unsigned_commit_tx.input) = 2


CommitLoopLeft == builder.at # "commit_loop"
RevealLoopLeft == builder.at # "reveal_loop"

\* C23: the fee loops of build_commit_transaction and of
\* build_reveal_transaction terminate: a call that has entered one of them
\* leaves it, with a transaction or with an error.
C23_FeeLoopsTerminate ==
    /\ (builder.at = "commit_loop") ~> CommitLoopLeft
    /\ (builder.at = "reveal_loop") ~> RevealLoopLeft

\* The part of C23 about build_reveal_transaction on its own: its input is
\* the 546 satoshi output, no change output is ever added and the first pass
\* finds the size it started with.
RevealLoopRunsOnce ==
    builder.at = "reveal_loop" =>
        /\ builder.unsigned_commit_tx.output[1] = 546
        /\ builder.last_size = get_size(1, 1, 31, builder.reveal_script, TRUE)


\* C24: an envelope opens only on an IF whose immediately preceding
\* instruction is FALSE: a script in which no IF directly follows a FALSE
\* has no envelope, whatever stands between a FALSE and a later IF, and is
\* answered with EnvelopeHasIncorrectFormat.
C24_EnvelopeNeedsFalseThenIf ==
    (ParseReturned /\ EnvelopeOpenAt(script) = 0) =>
        /\ ~parsed.ok
        /\ parsed.err = "EnvelopeHasIncorrectFormat"

\* The part of C24 that the parser keeps: an opcode other than IF and ENDIF
\* between the FALSE and the IF does prevent the envelope.
OpcodeAfterFalsePreventsEnvelope ==
    (/\ ParseReturned
     /\ EnvelopeOpenAt(script) = 0
     /\ \A k \in 2..Len(script) :
          (IsOpcode(script[k], "OP_IF") /\ ~IsOpcode(script[k - 1], "OP_IF")) =>
              (script[k - 1].kind = "op" /\ script[k - 1].op # "OP_ENDIF")) =>
        ~parsed.ok


\* C25: for every nonce the mining loop embeds, the nonce is one data push
\* at envelope position 7 (zero-based) of the script built for it, and that
\* script parses successfully.
C25_EveryNonceParses ==
    (builder.at \notin {"idle", "attempt"} /\ builder.reveal_script # <<>>) =>
        LET s == builder.reveal_script
        IN /\ IsPush(InsideEnvelope(s)[8])
           /\ InsideEnvelope(s)[9] = Push(BODY_TAG)
           /\ parse_relevant_inscriptions(s, builder.rollup_name).ok

\* The nonces C25 holds for: 0 and the values above 16.
NonceOutsidePushnumParses ==
    (builder.at \notin {"idle", "attempt"} /\ builder.reveal_script # <<>>
     /\ builder.random \notin 1..16) =>
        /\ IsPush(InsideEnvelope(builder.reveal_script)[8])
        /\ parse_relevant_inscriptions(builder.reveal_script, builder.rollup_name).ok


Chose == selection.at = "returned" /\ selection.res.ok

\* C26: a successful choose_utxos returns different entries of the list it
\* was given, a sum that is the total of their amounts and that is at least
\* the required amount; the call fails, with "not enought UTXOs", exactly
\* when the total of all the UTXOs given is below the required amount.
C26_ChosenCoverAmount ==
    selection.at = "returned" =>
        LET res == selection.res
            utxos == selection.utxos
            chosen == res.chosen
        IN /\ res.ok =>
                /\ \A i \in 1..Len(chosen) : \E k \in 1..Len(utxos) : chosen[i] = utxos[k]
                /\ \A i, j \in 1..Len(chosen) : i # j => chosen[i] # chosen[j]
                /\ res.sum = SumAmounts(chosen)
                /\ res.sum >= selection.amount
           /\ ~res.ok <=> SumAmounts(utxos) < selection.amount
           /\ ~res.ok => res.err = "not enought UTXOs"

\* Several UTXOs were needed and one was left over.
C26_Witness ==
    /\ Chose
    /\ Len(selection.res.chosen) >= 2
    /\ Len(selection.utxos) > Len(selection.res.chosen)

\* C27: when some UTXO alone reaches the required amount, exactly one UTXO
\* is chosen and no UTXO that reaches the amount is worth less; otherwise
\* the chosen UTXOs are the shortest prefix, in descending order of amount,
\* whose sum reaches the required amount.
C27_SelectionRule ==
    Chose =>
        LET utxos == selection.utxos
            amount == selection.amount
            chosen == selection.res.chosen
            n == Len(chosen)
            Left == {k \in 1..Len(utxos) : \A i \in 1..n : chosen[i] # utxos[k]}
        IN IF \E k \in 1..Len(utxos) : utxos[k].amount >= amount
             THEN /\ n = 1
                  /\ chosen[1].amount >= amount
                  /\ \A k \in 1..Len(utxos) :
                       utxos[k].amount >= amount => chosen[1].amount <= utxos[k].amount
           ELSE /\ \A i \in 1..(n - 1) : chosen[i].amount >= chosen[i + 1].amount
                /\ \A k \in Left : n > 0 /\ utxos[k].amount <= chosen[n].amount
                /\ n > 0 => SumAmounts(chosen) - chosen[n].amount < amount

\* Three UTXOs were needed, two of them of the same amount.
C27_Witness ==
    /\ Chose
    /\ Len(selection.res.chosen) = 3
    /\ selection.res.chosen[1].amount = selection.res.chosen[2].amount

\* One UTXO was enough, and the list held a larger one before it.
SingleSmallestChosen ==
    /\ Chose
    /\ Len(selection.res.chosen) = 1
    /\ Len(selection.utxos) >= 2
    /\ selection.utxos[1].amount > selection.res.chosen[1].amount


\* C28: the assertion after the walk cannot fail when it is reached: every
\* txid collected from the completeness proof was removed by the walk, so
\* the set is empty and no call ends with "non-relevant transaction found in
\* completeness proof" there.
C28_ResidualIsEmpty ==
    /\ pc = "residual" => completeness_tx_hashes = {}
    /\ ~(Rejected /\ result.at = "residual")

\* The assertion is reached after a walk that removed two txids.
C28_Witness ==
    /\ pc = "residual"
    /\ Len(completeness_proof) = 2
    /\ completeness_proof[1].txid # completeness_proof[2].txid


\* The envelope of s stops at an ENDIF, not at an undecodable byte or at the
\* end of the script.
ClosedByEndif(s) ==
    /\ EnvelopeEndAt(s) <= Len(s)
    /\ IsOpcode(s[EnvelopeEndAt(s)], "OP_ENDIF")

\* C29: the parser returns Ok only for a script whose envelope, opened by
\* FALSE IF, is closed by an ENDIF: a script that ends, or stops being
\* decodable, while the envelope is open is not accepted.
C29_AcceptedEnvelopeIsClosed ==
    (ParseReturned /\ ProperlyOpened(script) /\ parsed.ok) => ClosedByEndif(script)


\* No transaction is twice in the completeness proof.
DistinctCompleteness ==
    \A i, j \in 1..Len(completeness_proof) :
        i # j => completeness_proof[i] # completeness_proof[j]

\* C30: an accepted call has no transaction twice in its completeness proof
\* and no tagged txid twice in its inclusion proof: a call with a repeated
\* tagged txid, or with a repeated completeness transaction, is rejected.
C30_AcceptedHasNoRepeats ==
    Accepted => (DistinctCompleteness /\ DistinctTagged)

\* A block of three txids whose last, tagged, txid is given twice: the
\* merkle root is that of the three, the transaction is twice in the
\* completeness proof too, and the walk rejects.
C30_Witness ==
    /\ Rejected
    /\ result.at = "walk"
    /\ Len(inclusion_proof.txs) = 4
    /\ inclusion_proof.txs[3] = inclusion_proof.txs[4]
    /\ HasPowTag(inclusion_proof.txs[4])
    /\ CalculateRoot(SubSeq(inclusion_proof.txs, 1, 3)).root = block_header.merkle_root
    /\ MerkleRootMatches
    /\ ~DistinctCompleteness

=============================================================================
